---- MODULE Spec2Model ----
(***************************************************************************)
(* Model of the mcup client: the approval-gating session (MCUPSession,     *)
(* src/src/mcup/client/mcup_session.py) and the stdio transport pumps      *)
(* (stdio_client, src/src/mcup/client/stdio/__init__.py).                  *)
(*                                                                         *)
(* Text is modelled as a sequence of one-character strings, so that        *)
(* lower(), strip(), split("\n") and substring search are computed the way *)
(* the Python code computes them.                                          *)
(***************************************************************************)
EXTENDS Integers, Sequences, FiniteSets, TLC

(***************************************************************************)
(* Bounds of the model.                                                    *)
(***************************************************************************)
\* number of session calls the caller task issues
MaxCalls == 2
\* number of lines the child process writes to its stdout
MaxLines == 3
\* the same two bounds where both directions run together
MaxDuplexCalls == 2
MaxDuplexLines == 2

(***************************************************************************)
(* Text helpers: Python str operations on sequences of characters.         *)
(***************************************************************************)
Uppers == <<"A","B","C","D","E","F","G","H","I","J","K","L","M",
            "N","O","P","Q","R","S","T","U","V","W","X","Y","Z">>
Lowers == <<"a","b","c","d","e","f","g","h","i","j","k","l","m",
            "n","o","p","q","r","s","t","u","v","w","x","y","z">>

\* str.lower() on one character
LowerChar(c) ==
    IF \E i \in 1..Len(Uppers) : Uppers[i] = c
    THEN Lowers[CHOOSE i \in 1..Len(Uppers) : Uppers[i] = c]
    ELSE c

\* str.lower()
Lower(s) == [i \in 1..Len(s) |-> LowerChar(s[i])]

\* the characters str.strip() removes
Whitespace == {" ", "\t", "\r", "\n"}

RECURSIVE LStrip(_)
LStrip(s) ==
    IF s # <<>> /\ Head(s) \in Whitespace THEN LStrip(Tail(s)) ELSE s

RECURSIVE RStrip(_)
RStrip(s) ==
    IF s # <<>> /\ s[Len(s)] \in Whitespace
    THEN RStrip(SubSeq(s, 1, Len(s) - 1))
    ELSE s

\* str.strip()
Strip(s) == RStrip(LStrip(s))

\* the Python expression `sub in s` on strings
Contains(sub, s) ==
    \E i \in 0..(Len(s) - Len(sub)) : SubSeq(s, i + 1, i + Len(sub)) = sub

\* str.split("\n"): the segments between newlines; always at least one
\* segment, the last one being the text after the final newline
RECURSIVE SplitAcc(_, _, _)
SplitAcc(s, cur, acc) ==
    IF s = <<>> THEN Append(acc, cur)
    ELSE IF Head(s) = "\n" THEN SplitAcc(Tail(s), <<>>, Append(acc, cur))
    ELSE SplitAcc(Tail(s), Append(cur, Head(s)), acc)

Split(s) == SplitAcc(s, <<>>, <<>>)

\* list.pop() leaves all but the last element
ButLast(q) == SubSeq(q, 1, Len(q) - 1)
Last(q) == q[Len(q)]


(***************************************************************************)
(* Tool names, keywords, arguments and prompt inputs the model draws from. *)
(***************************************************************************)
write_data    == <<"w","r","i","t","e","_","d","a","t","a">>
get_data      == <<"g","e","t","_","d","a","t","a">>
WRITE_DATA    == <<"W","R","I","T","E","_","D","A","T","A">>
update_widget == <<"u","p","d","a","t","e","-","w","i","d","g","e","t">>
rewrite_view  == <<"r","e","w","r","i","t","e","_","v","i","e","w">>
fetch         == <<"f","e","t","c","h">>
Delete_Item   == <<"D","e","l","e","t","e","_","I","t","e","m">>

kw_write  == <<"w","r","i","t","e">>
kw_delete == <<"d","e","l","e","t","e">>
kw_update == <<"u","p","d","a","t","e">>
kw_create == <<"c","r","e","a","t","e">>
kw_modify == <<"m","o","d","i","f","y">>
kw_Write  == <<"W","r","i","t","e">>
kw_UPDATE == <<"U","P","D","A","T","E">>
kw_data   == <<"d","a","t","a">>

\* the default of the mutating_tool_keywords parameter
DefaultKeywords == {kw_write, kw_delete, kw_update, kw_create, kw_modify}

\* the values of approval_mode a session is constructed with
ApprovalModes == {"cli", "CLI", "None"}

\* the keyword sets a session is constructed with
KeywordSets == {DefaultKeywords, {kw_Write}}

\* arguments of a call: None, and a dict whose text holds a newline
NoArgs  == <<"None">>
NlArgs  == <<"d", "\n", "x">>
Arguments == {NoArgs, NlArgs}

\* lines the user may type at the prompt
in_y     == <<"y">>
in_Y     == <<"Y">>
in_y_ws  == <<" ", "y", " ">>
in_Y_tab == <<"Y", "\t">>
in_yes   == <<"y", "e", "s">>
in_n     == <<"n">>
in_empty == <<>>
InputLines == {in_y, in_Y, in_y_ws, in_Y_tab, in_yes, in_n, in_empty}

\* what a call of ainput() produces: a line, or an exception (end of input)
Line(text) == [type |-> "line", text |-> text]
EOFError   == [type |-> "EOFError", text |-> <<>>]
NoInput    == [type |-> "NoInput", text |-> <<>>]
PromptResults == {Line(t) : t \in InputLines} \cup {EOFError}


(***************************************************************************)
(* MCUPSession.call_tool: the pure parts.                                  *)
(***************************************************************************)
\* is_mutating = any(keyword in name.lower() for keyword in keywords)
IsMutating(name, kws) == \E k \in kws : Contains(k, Lower(name))

\* variant: any approval_mode that is set enables the prompt
NeedsApproval_truthy(is_mutating, mode) == is_mutating /\ mode # "None"

\* if is_mutating and self.approval_mode == "cli"
NeedsApproval(is_mutating, mode) == is_mutating /\ mode = "cli"

\* variant: the comparison is case-sensitive
Approved_cased(user_input) == Strip(user_input) = <<"y">>

\* approved = user_input.strip().lower() == 'y'
Approved(user_input) == Lower(Strip(user_input)) = <<"y">>

\* raise ValueError(f"User denied tool call: {name}")
DeniedError(name) == [type |-> "ValueError", tool |-> name]

\* the exception ainput() raised, re-raised by `except Exception: ... raise`
ReadError(res) == [type |-> res.type, tool |-> <<>>]

\* what the underlying session's call produces
CallToolResult == [type |-> "CallToolResult", tool |-> <<>>]
McpError       == [type |-> "McpError", tool |-> <<>>]
UnderlyingOutcomes == {CallToolResult, McpError}
NoOutcome      == [type |-> "NoOutcome", tool |-> <<>>]

\* variant: an error of the underlying call is reported as a denial
GateReturn_wrapped(under) ==
    IF under.type = "McpError" THEN [type |-> "ValueError", tool |-> <<>>]
    ELSE under

\* return await super().call_tool(...): the result or the error as it is
GateReturn(under) == under

\* variant: read_resource is overridden with the gate as well
MCUPSessionMethods_more == {"call_tool", "read_resource"}

\* the methods MCUPSession defines itself; every other method of the
\* session is inherited from ClientSession
MCUPSessionMethods == {"call_tool"}

\* the operations of the session the caller uses
SessionOps == {"call_tool", "initialize", "list_tools", "list_resources",
               "read_resource"}

(***************************************************************************)
(* Framing: one JSON document per newline-terminated line.                 *)
(***************************************************************************)
\* JSON text of a string: a newline or backslash inside it is escaped
RECURSIVE Escape(_)
Escape(s) ==
    IF s = <<>> THEN <<>>
    ELSE IF Head(s) = "\n" THEN <<"\\", "n">> \o Escape(Tail(s))
    ELSE IF Head(s) = "\\" THEN <<"\\", "\\">> \o Escape(Tail(s))
    ELSE <<Head(s)>> \o Escape(Tail(s))

\* message.model_dump_json(...): the JSON text of a message, on one line
ModelDumpJson(m) == <<"{">> \o Escape(m) \o <<"}">>

\* (json + "\n").encode(...)
EncodeLine(m) == ModelDumpJson(m) \o <<"\n">>

\* the body of a JSON document is well formed: no raw control character,
\* every backslash starts a known escape
RECURSIVE WellEscaped(_)
WellEscaped(s) ==
    IF s = <<>> THEN TRUE
    ELSE IF Head(s) \in {"\n", "{", "}"} THEN FALSE
    ELSE IF Head(s) = "\\"
         THEN /\ Len(s) >= 2
              /\ s[2] \in {"n", "\\"}
              /\ WellEscaped(Tail(Tail(s)))
    ELSE WellEscaped(Tail(s))

RECURSIVE Unescape(_)
Unescape(s) ==
    IF s = <<>> THEN <<>>
    ELSE IF Head(s) = "\\"
         THEN <<(IF s[2] = "n" THEN "\n" ELSE "\\")>> \o Unescape(Tail(Tail(s)))
    ELSE <<Head(s)>> \o Unescape(Tail(s))

\* the units of the inbound channel: SessionMessage | Exception
MessageUnit(m) == [kind |-> "message", msg |-> m]
ErrorUnit      == [kind |-> "error", msg |-> <<>>]

\* JSONRPCMessage.model_validate_json(line): the message, or the
\* validation error it raises; JSON allows whitespace around the document
ModelValidateJson(line) ==
    LET t == Strip(line)
        body == SubSeq(t, 2, Len(t) - 1)
    IN  IF /\ Len(t) >= 3
           /\ t[1] = "{"
           /\ t[Len(t)] = "}"
           /\ WellEscaped(body)
        THEN MessageUnit(Unescape(body))
        ELSE ErrorUnit


(***************************************************************************)
(* State.                                                                  *)
(***************************************************************************)
VARIABLES
    approval_mode,  \* MCUPSession.approval_mode
    keywords,       \* MCUPSession._mutating_tool_keywords
    callerPc,       \* where the caller task is: idle, prompt, send, await
    nCalls,         \* session calls started so far
    cur,            \* the call in progress, or the last one finished
    prompts,        \* number of times ainput() was called
    superLog,       \* calls that reached the underlying ClientSession
    deniedIds,      \* calls whose prompt ended in a denial
    outSent,        \* messages the session sent on write_stream
    wpc,            \* stdin_writer: recv (waiting on the channel) or write
    wmsg,           \* the message stdin_writer holds
    stdin,          \* the characters written to the child's stdin
    stdout,         \* the characters the child wrote to its stdout
    childLines,     \* what the child meant by them, line by line
    stdoutClosed,   \* the child closed its stdout
    pos,            \* how much of stdout the reader has consumed
    buffer,         \* stdout_reader: the carry-over
    lines,          \* stdout_reader: complete lines not yet forwarded
    rpc,            \* stdout_reader: read, send or done
    delivered,      \* units the session received from read_stream
    clsName,        \* classify: the name given
    clsKeywords,    \* classify: the keyword set given
    clsResult,      \* classify: Mutating or NonMutating
    mainPc,         \* stdio_client: where the transport's own task is
    pending,        \* the exception travelling out of the body, if any
    result,         \* how the stdio_client context ended
    ep,             \* the four channel endpoints: TRUE when closed
    proc,           \* the child process
    procStdinClosed,\* process.stdin was closed
    killCalls,      \* calls of _terminate_process_tree
    steps,          \* the steps open and shutdown ran, in order
    waitOutcome,    \* how process.wait() under fail_after ended
    stdinCloseFailed, \* process.stdin.aclose() raised
    rd,             \* stdout_reader during the transport's life
    rdErr,          \* the exception stdout_reader ended with
    wr,             \* stdin_writer during the transport's life
    wrErr,          \* the exception stdin_writer ended with
    cancelled,      \* the cancel scope of the task group is cancelled
    nHanded,        \* messages stdin_writer took from the channel
    nWritten,       \* messages stdin_writer wrote to the child
    nEmitted,       \* output items stdout_reader read from the child
    inbound,        \* units the session received: messages and errors
    hostEnv,        \* os.environ
    callerEnv,      \* server.env
    childEnv,       \* the env given to the child process
    wsPc,           \* websocket_client: where the transport's own task is
    wsPending,      \* the exception travelling out of the body, if any
    wsResult,       \* how the websocket_client context ended
    wsConn,         \* the connection: none, open, peer_closed, closed
    wsCancelled,    \* the cancel scope of the task group is cancelled
    wsFrames,       \* the text frames the server sent, in order
    wsPos,          \* frames ws_reader has taken
    wsRd,           \* ws_reader
    wsUnit,         \* the unit ws_reader is sending
    wsInbound,      \* the units the session received, in order
    wsWr,           \* ws_writer
    wsHeld,         \* the message ws_writer holds
    wsTaken,        \* messages ws_writer took from the channel
    wsOut           \* the text frames ws_writer sent, in order

sessionVars == <<approval_mode, keywords, callerPc, nCalls, cur, prompts,
                 superLog, deniedIds, outSent>>
writerVars  == <<wpc, wmsg, stdin>>
readerVars  == <<stdout, childLines, stdoutClosed, pos, buffer, lines, rpc,
                 delivered>>
clsVars     == <<clsName, clsKeywords, clsResult>>
lifeVars    == <<mainPc, pending, result, ep, proc, procStdinClosed,
                 killCalls, steps, waitOutcome, stdinCloseFailed, rd, rdErr,
                 wr, wrErr, cancelled, nHanded, nWritten, nEmitted, inbound>>
wsVars      == <<wsPc, wsPending, wsResult, wsConn, wsCancelled, wsFrames,
                 wsPos, wsRd, wsUnit, wsInbound, wsWr, wsHeld, wsTaken,
                 wsOut>>
extVars     == <<lifeVars, hostEnv, callerEnv, childEnv, wsVars>>
vars == <<sessionVars, writerVars, readerVars, clsVars, extVars>>

NoCall == [id |-> 0, op |-> "none", name |-> <<>>, args |-> <<>>,
           is_mutating |-> FALSE, input |-> NoInput, events |-> <<>>,
           under |-> NoOutcome, outcome |-> NoOutcome]

\* the JSON-RPC request the underlying session builds for a call
RequestMessage(op, name, args) == <<op>> \o name \o args

(***************************************************************************)
(* The session after construction, both pumps started, nothing sent yet.   *)
(***************************************************************************)
InitSession(modes, kwsets) ==
    /\ approval_mode \in modes
    /\ keywords \in kwsets
    /\ callerPc = "idle"
    /\ nCalls = 0
    /\ cur = NoCall
    /\ prompts = 0
    /\ superLog = <<>>
    /\ deniedIds = {}
    /\ outSent = <<>>

InitWriter ==
    /\ wpc = "recv"
    /\ wmsg = <<>>
    /\ stdin = <<>>

InitReader ==
    /\ stdout = <<>>
    /\ childLines = <<>>
    /\ stdoutClosed = FALSE
    /\ pos = 0
    /\ buffer = <<>>
    /\ lines = <<>>
    /\ rpc = "read"
    /\ delivered = <<>>

InitCls ==
    /\ clsName = <<>>
    /\ clsKeywords = {}
    /\ clsResult = "unset"

NoEnv == [k \in {} |-> <<>>]

NoUnit == [kind |-> "none", msg |-> <<>>]

\* the stdio transport before stdio_client is entered
InitLife ==
    /\ mainPc = "open"
    /\ pending = "none"
    /\ result = "none"
    /\ ep = [read_stream |-> FALSE, write_stream |-> FALSE,
             read_stream_writer |-> FALSE, write_stream_reader |-> FALSE]
    /\ proc = "none"
    /\ procStdinClosed = FALSE
    /\ killCalls = 0
    /\ steps = <<>>
    /\ waitOutcome = "none"
    /\ stdinCloseFailed = FALSE
    /\ rd = "idle"
    /\ rdErr = "none"
    /\ wr = "idle"
    /\ wrErr = "none"
    /\ cancelled = FALSE
    /\ nHanded = 0
    /\ nWritten = 0
    /\ nEmitted = 0
    /\ inbound = [messages |-> 0, errors |-> 0]

\* the websocket transport before websocket_client is entered
InitWs ==
    /\ wsPc = "connect"
    /\ wsPending = "none"
    /\ wsResult = "none"
    /\ wsConn = "none"
    /\ wsCancelled = FALSE
    /\ wsFrames = <<>>
    /\ wsPos = 0
    /\ wsRd = "idle"
    /\ wsUnit = NoUnit
    /\ wsInbound = <<>>
    /\ wsWr = "idle"
    /\ wsHeld = <<>>
    /\ wsTaken = 0
    /\ wsOut = <<>>

InitExt ==
    /\ InitLife
    /\ InitWs
    /\ hostEnv = NoEnv
    /\ callerEnv = [given |-> FALSE, env |-> NoEnv]
    /\ childEnv = [built |-> FALSE, env |-> NoEnv]

Init ==
    /\ InitExt
    /\ InitSession(ApprovalModes, KeywordSets)
    /\ InitWriter
    /\ InitReader
    /\ InitCls

(***************************************************************************)
(* The caller task: one session call at a time.                            *)
(***************************************************************************)
\* the call enters the underlying ClientSession, which builds the request
\* and blocks sending it on write_stream
SuperCall(c) ==
    /\ superLog' = Append(superLog, [id |-> c.id, op |-> c.op,
                                      name |-> c.name, args |-> c.args])
    /\ cur' = [c EXCEPT !.events = Append(c.events, "super")]
    /\ callerPc' = "send"

\* variant: the except block logs the error and does not re-raise it
Raise_swallowed(c, e) ==
    /\ superLog' = Append(superLog, [id |-> c.id, op |-> c.op,
                                      name |-> c.name, args |-> c.args])
    /\ cur' = [c EXCEPT !.events = Append(c.events, "super")]
    /\ callerPc' = "send"
    /\ deniedIds' = deniedIds \cup {c.id}

\* the call fails with exception e before it reaches the underlying session
Raise(c, e) ==
    /\ cur' = [c EXCEPT !.outcome = e, !.events = Append(c.events, "raise")]
    /\ callerPc' = "idle"
    /\ deniedIds' = deniedIds \cup {c.id}
    /\ superLog' = superLog

\* session.<op>(name, args), up to its first suspension point.  For
\* call_tool this is MCUPSession.call_tool up to `await ainput(prompt)`.
CallStart(op, name, args, maxCalls) ==
    /\ callerPc = "idle"
    /\ nCalls < maxCalls
    /\ nCalls' = nCalls + 1
    /\ LET c == [NoCall EXCEPT !.id = nCalls + 1, !.op = op, !.name = name,
                               !.args = args]
       IN  IF op \in MCUPSessionMethods
           THEN LET is_mutating == IsMutating(name, keywords)
                    c1 == [c EXCEPT !.is_mutating = is_mutating]
                IN  IF NeedsApproval(is_mutating, approval_mode)
                    THEN /\ cur' = [c1 EXCEPT !.events = <<"prompt">>]
                         /\ prompts' = prompts + 1
                         /\ callerPc' = "prompt"
                         /\ superLog' = superLog
                    ELSE /\ SuperCall(c1)
                         /\ prompts' = prompts
           ELSE /\ SuperCall(c)
                /\ prompts' = prompts
    /\ UNCHANGED <<approval_mode, keywords, deniedIds, outSent>>
    /\ UNCHANGED <<writerVars, readerVars, clsVars, extVars>>

\* variant: once a gated call was approved, the answer is not looked at
PromptReturn_remembersApproval(res) ==
    /\ callerPc = "prompt"
    /\ LET c == [cur EXCEPT !.input = res, !.events = Append(cur.events, "read")]
       IN  IF res.type # "line"
           THEN Raise(c, ReadError(res))
           ELSE IF ~Approved(res.text)
                   /\ ~\E i \in 1..Len(superLog) :
                          IsMutating(superLog[i].name, keywords)
           THEN Raise(c, DeniedError(c.name))
           ELSE /\ SuperCall(c)
                /\ deniedIds' = deniedIds
    /\ UNCHANGED <<approval_mode, keywords, nCalls, prompts, outSent>>
    /\ UNCHANGED <<writerVars, readerVars, clsVars, extVars>>

\* ainput() returns a line or raises; the rest of the approval block
PromptReturn(res) ==
    /\ callerPc = "prompt"
    /\ LET c == [cur EXCEPT !.input = res, !.events = Append(cur.events, "read")]
       IN  IF res.type # "line"
           THEN Raise(c, ReadError(res))
           ELSE IF ~Approved(res.text)
           THEN Raise(c, DeniedError(c.name))
           ELSE /\ SuperCall(c)
                /\ deniedIds' = deniedIds
    /\ UNCHANGED <<approval_mode, keywords, nCalls, prompts, outSent>>
    /\ UNCHANGED <<writerVars, readerVars, clsVars, extVars>>

\* write_stream.send(request): the channel has no buffer, so the send
\* completes when stdin_writer takes the message
SendRequest ==
    /\ callerPc = "send"
    /\ wpc = "recv"
    /\ LET m == RequestMessage(cur.op, cur.name, cur.args)
       IN  /\ outSent' = Append(outSent, [id |-> cur.id, msg |-> m])
           /\ wmsg' = m
    /\ wpc' = "write"
    /\ callerPc' = "await"
    /\ cur' = [cur EXCEPT !.events = Append(cur.events, "send")]
    /\ UNCHANGED <<approval_mode, keywords, nCalls, prompts, superLog,
                   deniedIds, stdin>>
    /\ UNCHANGED <<readerVars, clsVars, extVars>>

\* the underlying call completes with a result or an error, which
\* call_tool hands to the caller
Response(under) ==
    /\ callerPc = "await"
    /\ cur' = [cur EXCEPT !.under = under, !.outcome = GateReturn(under),
                          !.events = Append(cur.events, "return")]
    /\ callerPc' = "idle"
    /\ UNCHANGED <<approval_mode, keywords, nCalls, prompts, superLog,
                   deniedIds, outSent>>
    /\ UNCHANGED <<writerVars, readerVars, clsVars, extVars>>

(***************************************************************************)
(* stdin_writer: the input pump.                                           *)
(***************************************************************************)
\* process.stdin.send((json + "\n").encode(...))
WriterWrite ==
    /\ wpc = "write"
    /\ stdin' = stdin \o EncodeLine(wmsg)
    /\ wpc' = "recv"
    /\ wmsg' = <<>>
    /\ UNCHANGED <<sessionVars, readerVars, clsVars, extVars>>

(***************************************************************************)
(* The child process writing its stdout, and stdout_reader: the output     *)
(* pump.                                                                   *)
(***************************************************************************)
\* messages the child may answer with; one holds a newline in its text
msg_a  == <<"a">>
msg_nl == <<"b", "\n">>
msg_bs == <<"\\", "n">>
ChildMessages == {msg_a, msg_nl, msg_bs}

\* lines that are no JSON-RPC message: plain text, an empty line, a
\* truncated document
bad_text  == <<"x">>
bad_empty == <<>>
bad_trunc == <<"{", "a">>
MalformedLines == {bad_text, bad_empty, bad_trunc}

\* what the child writes as one line, with the unit it stands for
GoodItem(m) == [unit |-> MessageUnit(m), text |-> ModelDumpJson(m)]
BadItem(t)  == [unit |-> ErrorUnit, text |-> t]
ChildItems  == {GoodItem(m) : m \in ChildMessages}
                 \cup {BadItem(t) : t \in MalformedLines}

\* variant: the carry-over is left out of the split
FeedLines_nobuf(buf, chunk) == ButLast(Split(chunk))

\* lines = (buffer + chunk).split("\n"); buffer = lines.pop()
FeedLines(buf, chunk)  == ButLast(Split(buf \o chunk))
FeedBuffer(buf, chunk) == Last(Split(buf \o chunk))

\* the child writes one newline-terminated line to its stdout
ChildWrite(item, maxLines) ==
    /\ ~stdoutClosed
    /\ Len(childLines) < maxLines
    /\ stdout' = stdout \o item.text \o <<"\n">>
    /\ childLines' = Append(childLines, item)
    /\ UNCHANGED <<stdoutClosed, pos, buffer, lines, rpc, delivered>>
    /\ UNCHANGED <<sessionVars, writerVars, clsVars, extVars>>

\* the child closes its stdout (it exits)
ChildClose ==
    /\ ~stdoutClosed
    /\ stdoutClosed' = TRUE
    /\ UNCHANGED <<stdout, childLines, pos, buffer, lines, rpc, delivered>>
    /\ UNCHANGED <<sessionVars, writerVars, clsVars, extVars>>

\* one iteration of `async for chunk in TextReceiveStream(process.stdout)`
\* up to the first send: the chunk is whatever part of the unread output
\* the read returns
ReaderRead(n) ==
    /\ rpc = "read"
    /\ n >= 1
    /\ pos + n <= Len(stdout)
    /\ LET chunk == SubSeq(stdout, pos + 1, pos + n)
       IN  /\ lines' = FeedLines(buffer, chunk)
           /\ buffer' = FeedBuffer(buffer, chunk)
           /\ rpc' = IF FeedLines(buffer, chunk) = <<>> THEN "read" ELSE "send"
    /\ pos' = pos + n
    /\ UNCHANGED <<stdout, childLines, stdoutClosed, delivered>>
    /\ UNCHANGED <<sessionVars, writerVars, clsVars, extVars>>

\* variant: the exception handler is around the loop, so the pump ends
\* once it has reported a malformed line
ReaderSend_stopOnError ==
    /\ rpc = "send"
    /\ delivered' = Append(delivered, ModelValidateJson(Head(lines)))
    /\ IF ModelValidateJson(Head(lines)) = ErrorUnit
       THEN lines' = <<>> /\ rpc' = "done"
       ELSE /\ lines' = Tail(lines)
            /\ rpc' = IF Tail(lines) = <<>> THEN "read" ELSE "send"
    /\ UNCHANGED <<stdout, childLines, stdoutClosed, pos, buffer>>
    /\ UNCHANGED <<sessionVars, writerVars, clsVars, extVars>>

\* variant: the lines of a chunk are taken from the end of the list
ReaderSend_lifo ==
    /\ rpc = "send"
    /\ delivered' = Append(delivered, ModelValidateJson(Last(lines)))
    /\ lines' = ButLast(lines)
    /\ rpc' = IF ButLast(lines) = <<>> THEN "read" ELSE "send"
    /\ UNCHANGED <<stdout, childLines, stdoutClosed, pos, buffer>>
    /\ UNCHANGED <<sessionVars, writerVars, clsVars, extVars>>

\* the next line is validated and the message, or the exception the
\* validation raised, is sent on read_stream_writer; the channel has no
\* buffer, so the send completes when the session receives the unit
ReaderSend ==
    /\ rpc = "send"
    /\ delivered' = Append(delivered, ModelValidateJson(Head(lines)))
    /\ lines' = Tail(lines)
    /\ rpc' = IF Tail(lines) = <<>> THEN "read" ELSE "send"
    /\ UNCHANGED <<stdout, childLines, stdoutClosed, pos, buffer>>
    /\ UNCHANGED <<sessionVars, writerVars, clsVars, extVars>>

\* variant: the carry-over is validated and forwarded at end of output
ReaderEof_flush ==
    /\ rpc = "read"
    /\ stdoutClosed
    /\ pos = Len(stdout)
    /\ rpc' = "done"
    /\ delivered' = IF buffer = <<>> THEN delivered
                    ELSE Append(delivered, ModelValidateJson(buffer))
    /\ UNCHANGED <<stdout, childLines, stdoutClosed, pos, buffer, lines>>
    /\ UNCHANGED <<sessionVars, writerVars, clsVars, extVars>>

\* end of the child's output: the loop ends and `async with
\* read_stream_writer` closes the producer end of the inbound channel
ReaderEof ==
    /\ rpc = "read"
    /\ stdoutClosed
    /\ pos = Len(stdout)
    /\ rpc' = "done"
    /\ UNCHANGED <<stdout, childLines, stdoutClosed, pos, buffer, lines,
                   delivered>>
    /\ UNCHANGED <<sessionVars, writerVars, clsVars, extVars>>

\* the requests the caller issues
CallNames == {write_data, get_data, WRITE_DATA}
OtherParams == {write_data}

StartCall ==
    \/ \E name \in CallNames, args \in Arguments :
          CallStart("call_tool", name, args, MaxCalls)
    \/ \E op \in SessionOps \ {"call_tool"}, name \in OtherParams :
          CallStart(op, name, NoArgs, MaxCalls)

Next ==
    \/ StartCall
    \/ \E res \in PromptResults : PromptReturn(res)
    \/ SendRequest
    \/ \E under \in UnderlyingOutcomes : Response(under)
    \/ WriterWrite

Spec == Init /\ [][Next]_vars

(***************************************************************************)
(* The inbound direction alone: the child's output under every chunking.   *)
(***************************************************************************)
InitFraming ==
    /\ InitExt
    /\ InitSession({"None"}, {DefaultKeywords})
    /\ InitWriter
    /\ InitReader
    /\ InitCls

NextFraming ==
    \/ \E item \in ChildItems : ChildWrite(item, MaxLines)
    \/ ChildClose
    \/ \E n \in 1..(Len(stdout) - pos) : ReaderRead(n)
    \/ ReaderSend
    \/ ReaderEof

SpecFraming == InitFraming /\ [][NextFraming]_vars

(***************************************************************************)
(* Both directions together: the caller task and the two pumps, every      *)
(* interleaving.                                                           *)
(***************************************************************************)
DuplexItems == {GoodItem(msg_nl), BadItem(bad_text)}
DuplexResults == {Line(in_y), Line(in_n), Line(in_empty), Line(in_yes), EOFError}

InitDuplex ==
    /\ InitExt
    /\ InitSession({"cli"}, {DefaultKeywords})
    /\ InitWriter
    /\ InitReader
    /\ InitCls

NextDuplex ==
    \/ CallStart("call_tool", write_data, NlArgs, MaxDuplexCalls)
    \/ CallStart("call_tool", get_data, NoArgs, MaxDuplexCalls)
    \/ \E res \in DuplexResults : PromptReturn(res)
    \/ SendRequest
    \/ Response(CallToolResult)
    \/ WriterWrite
    \/ \E item \in DuplexItems : ChildWrite(item, MaxDuplexLines)
    \/ ChildClose
    \/ \E n \in 1..(Len(stdout) - pos) : ReaderRead(n)
    \/ ReaderSend
    \/ ReaderEof

SpecDuplex == InitDuplex /\ [][NextDuplex]_vars

(***************************************************************************)
(* The classification alone, over names and keyword sets.                  *)
(***************************************************************************)
ClassifyNames == {write_data, get_data, WRITE_DATA, update_widget,
                  rewrite_view, fetch, Delete_Item}
ClassifyKeywordSets ==
    {{kw_write}, {kw_write, kw_update}, {kw_Write}, {kw_UPDATE, kw_delete},
     DefaultKeywords, {kw_data}, {}, {kw_create, kw_modify}}

InitClassify ==
    /\ InitExt
    /\ InitSession({"cli"}, {DefaultKeywords})
    /\ InitWriter
    /\ InitReader
    /\ clsName \in ClassifyNames
    /\ clsKeywords \in ClassifyKeywordSets
    /\ clsResult = "unset"

\* the first statement of call_tool, on its own
Classify ==
    /\ clsResult = "unset"
    /\ clsResult' = IF IsMutating(clsName, clsKeywords)
                    THEN "Mutating" ELSE "NonMutating"
    /\ UNCHANGED <<clsName, clsKeywords>>
    /\ UNCHANGED <<sessionVars, writerVars, readerVars, extVars>>

NextClassify == Classify

SpecClassify == InitClassify /\ [][NextClassify]_vars


(***************************************************************************)
(* Properties of the approval gate.                                        *)
(***************************************************************************)
Ids(log) == {log[i].id : i \in 1..Len(log)}
Occurs(e, q) == \E i \in 1..Len(q) : q[i] = e
IsPrefix(p, q) == Len(p) <= Len(q) /\ SubSeq(q, 1, Len(p)) = p

\* a line that is one 'y' or 'Y', possibly with whitespace around it
IsYAmidWhitespace(text) ==
    \E i \in 1..Len(text) :
        /\ text[i] \in {"y", "Y"}
        /\ \A j \in (1..Len(text)) \ {i} : text[j] \in Whitespace

\* the prompt of a call ended in a denial: a failed read, or a line that
\* does not approve
PromptDenial(input) ==
    \/ input.type = "EOFError"
    \/ input.type = "line" /\ ~IsYAmidWhitespace(input.text)

ForwardedAs(c) ==
    [id |-> c.id, op |-> c.op, name |-> c.name, args |-> c.args]

\* C1: a call_tool whose prompt ended in a denial (a line that does not
\* approve, or a failed read) never reaches the underlying session and no
\* request for it is ever sent on the outbound channel, whatever the pumps
\* do in between.
C1_DeniedCallNeverForwarded ==
    /\ \A id \in deniedIds : id \notin Ids(superLog) /\ id \notin Ids(outSent)
    /\ PromptDenial(cur.input) =>
          /\ cur.id \in deniedIds
          /\ callerPc = "idle"
          /\ ~Occurs("super", cur.events)
          /\ ~Occurs("send", cur.events)

C1_Witness ==
    /\ 1 \in deniedIds
    /\ 2 \in Ids(outSent)
    /\ stdin # <<>>
    /\ delivered # <<>>

\* C2: call_tool prompts exactly when approval_mode is 'cli' and the name
\* classifies as mutating; otherwise the call goes to the underlying
\* session at once, with the same name and arguments, and nothing is read
\* from the prompt.
C2_State ==
    cur.op = "call_tool" =>
        IF approval_mode = "cli" /\ IsMutating(cur.name, keywords)
        THEN Head(cur.events) = "prompt"
        ELSE /\ Head(cur.events) = "super"
             /\ ~Occurs("prompt", cur.events)
             /\ ~Occurs("read", cur.events)
             /\ cur.input = NoInput
             /\ Occurs(ForwardedAs(cur), superLog)

C2_Step ==
    prompts' # prompts =>
        /\ prompts' = prompts + 1
        /\ approval_mode = "cli"
        /\ cur'.op = "call_tool"
        /\ IsMutating(cur'.name, keywords)

C2_PromptIffEnabledAndMutating == []C2_State /\ [][C2_Step]_vars

C2_Witness ==
    /\ approval_mode = "None"
    /\ cur.op = "call_tool"
    /\ cur.name = write_data
    /\ IsMutating(cur.name, keywords)
    /\ callerPc = "await"
    /\ nCalls = 2
    /\ prompts = 0

\* C3: a gated call answered 'y' is forwarded to the underlying session
\* exactly once, after the input was read, and call_tool ends with what the
\* underlying session produced, result or error, unchanged.
C3_ApprovedCallForwardedOnce ==
    (/\ cur.events # <<>>
     /\ Head(cur.events) = "prompt"
     /\ cur.input.type = "line"
     /\ Lower(cur.input.text) = <<"y">>) =>
        /\ Cardinality({i \in 1..Len(superLog) : superLog[i].id = cur.id}) = 1
        /\ Occurs(ForwardedAs(cur), superLog)
        /\ IsPrefix(cur.events, <<"prompt", "read", "super", "send", "return">>)
        /\ Len(cur.events) >= 3
        /\ IF callerPc = "idle"
           THEN cur.under \in UnderlyingOutcomes /\ cur.outcome = cur.under
           ELSE cur.outcome = NoOutcome

C3_Witness ==
    /\ cur.input = Line(in_Y)
    /\ cur.events = <<"prompt", "read", "super", "send", "return">>
    /\ cur.outcome = McpError
    /\ callerPc = "idle"

\* C4 as stated: only the exact line 'y' or 'Y' approves; every other line
\* and a failed read deny.
C4_OnlyExactYApproves ==
    cur.input # NoInput =>
        (Occurs("super", cur.events)
            <=> (cur.input.type = "line" /\ cur.input.text \in {<<"y">>, <<"Y">>}))

\* C4 amended: a line approves exactly when it is 'y' or 'Y' once leading
\* and trailing whitespace is removed; every other line and a failed read
\* deny, and a denied call ends with an error without being forwarded.
C4_StrippedYApproves ==
    cur.input # NoInput =>
        /\ Occurs("super", cur.events)
              <=> (cur.input.type = "line" /\ IsYAmidWhitespace(cur.input.text))
        /\ ~(cur.input.type = "line" /\ IsYAmidWhitespace(cur.input.text)) =>
              /\ cur.id \in deniedIds
              /\ callerPc = "idle"
              /\ cur.outcome.type \notin {"NoOutcome", "CallToolResult"}

C4_Witness ==
    /\ cur.input = Line(in_y_ws)
    /\ Occurs("send", cur.events)

\* C5: every denied gated call, whatever the cause of the denial, ends
\* with the same error, the denial error that carries the tool name.
C5_DenialCarriesToolName ==
    PromptDenial(cur.input) =>
        /\ cur.outcome.type = "ValueError"
        /\ cur.outcome.tool = cur.name

\* C7: initialize, list_tools, list_resources and read_resource never
\* trigger the prompt, whatever the approval mode and the name they carry;
\* they go to the underlying session at once.
C7_State ==
    cur.op \in SessionOps \ {"call_tool"} =>
        /\ Head(cur.events) = "super"
        /\ ~Occurs("prompt", cur.events)
        /\ ~Occurs("read", cur.events)
        /\ cur.input = NoInput
        /\ callerPc # "prompt"
        /\ Occurs(ForwardedAs(cur), superLog)

C7_Step ==
    (nCalls' # nCalls /\ cur'.op # "call_tool") => prompts' = prompts

C7_OnlyCallToolGated == []C7_State /\ [][C7_Step]_vars

C7_Witness ==
    /\ approval_mode = "cli"
    /\ cur.op = "read_resource"
    /\ IsMutating(cur.name, keywords)
    /\ callerPc = "await"
    /\ prompts = 1


(***************************************************************************)
(* Properties of the classification.                                       *)
(***************************************************************************)
\* C6: classify(name, keywords) is Mutating exactly when some keyword is a
\* substring of the name, both compared without regard to case.
C6_ClassifyIgnoresCase ==
    clsResult # "unset" =>
        (clsResult = "Mutating"
            <=> \E k \in clsKeywords : Contains(Lower(k), Lower(clsName)))

(***************************************************************************)
(* Properties of the framing and of the two pumps.                         *)
(***************************************************************************)
\* the units the child's lines stand for, in the order it wrote them
Expected == [i \in 1..Len(childLines) |-> childLines[i].unit]

\* the reader has taken all of the child's output and forwarded it
AllConsumed == pos = Len(stdout) /\ rpc # "send"

BadLines == {i \in 1..Len(childLines) : childLines[i].unit.kind = "error"}
Errors(q) == {i \in 1..Len(q) : q[i].kind = "error"}

\* C8: when the child's output is encode(M1) + ... + encode(Mk), however
\* the reads cut it into chunks, the inbound channel receives M1..Mk in
\* that order, nothing else and no error; all of them once the output is
\* consumed.
C8_ChunkingIndependent ==
    BadLines = {} =>
        /\ IsPrefix(delivered, Expected)
        /\ AllConsumed => delivered = Expected

C8_Witness ==
    /\ Len(childLines) = 3
    /\ BadLines = {}
    /\ childLines[1].unit = MessageUnit(msg_nl)
    /\ childLines[2].unit = MessageUnit(msg_bs)
    /\ Len(delivered) = 2
    /\ buffer # <<>>

\* C9: with one malformed line among N well-formed ones, at any position
\* and under any chunking, the inbound channel receives the N messages and
\* one error in the order of the lines, and the pump ends only at the end
\* of the child's output.
C9_OneMalformedLine ==
    Cardinality(BadLines) = 1 =>
        /\ IsPrefix(delivered, Expected)
        /\ AllConsumed =>
              /\ delivered = Expected
              /\ Cardinality(Errors(delivered)) = 1
              /\ Len(delivered) - Cardinality(Errors(delivered))
                    = Len(childLines) - 1
        /\ rpc = "done" => stdoutClosed /\ AllConsumed /\ lines = <<>>

C9_Witness ==
    /\ Len(childLines) = 3
    /\ BadLines = {2}
    /\ childLines[2].text = bad_trunc
    /\ delivered = Expected
    /\ rpc = "done"

\* C10: the lines on the child's stdin are, in order, the first messages
\* the session sent on the outbound channel, and the units on the inbound
\* channel are, in order, the first lines of the child's stdout.
C10_OrderPreserved ==
    /\ LET parts == Split(stdin)
           written == ButLast(parts)
       IN  /\ Last(parts) = <<>>
           /\ Len(written) <= Len(outSent)
           /\ \A i \in 1..Len(written) :
                 ModelValidateJson(written[i]) = MessageUnit(outSent[i].msg)
    /\ \A i, j \in 1..Len(outSent) : i < j => outSent[i].id < outSent[j].id
    /\ IsPrefix(delivered, Expected)

C10_Witness ==
    /\ Len(Split(stdin)) = 3
    /\ outSent[1].msg # outSent[2].msg
    /\ Len(delivered) = 2
    /\ delivered[1] # delivered[2]


\* ---------------------------------------------------------------------
\* The life of the stdio transport: stdio_client from the creation of the
\* channels to the return of the context, with the child process, the two
\* pumps and the caller's body as the concurrent parts.
\* ---------------------------------------------------------------------

\* messages the session hands to stdin_writer in one life of the transport
MaxLifeMsgs == 1
\* output items stdout_reader reads from the child in one life
MaxLifeLines == 2

Endpoints == {"read_stream", "write_stream",
              "read_stream_writer", "write_stream_reader"}

\* stream.aclose() of each endpoint named: closing twice is allowed
CloseEndpoints(e, names) == [n \in Endpoints |-> e[n] \/ n \in names]

AllClosed(e) == \A n \in Endpoints : e[n]

everythingElse == <<sessionVars, writerVars, readerVars, clsVars, hostEnv,
                    callerEnv, childEnv, wsVars>>

\* except OSError: the endpoints closed before the error is raised again
SpawnFailClosed_three ==
    {"read_stream", "write_stream", "read_stream_writer"}

SpawnFailClosed == Endpoints

\* the last four statements of the finally block
ShutdownClosed_noWrite ==
    {"read_stream", "read_stream_writer", "write_stream_reader"}

ShutdownClosed == Endpoints

\* the process was created: the task group starts both pumps and the
\* session is yielded to the caller
OpenOk ==
    /\ mainPc = "open"
    /\ mainPc' = "session"
    /\ proc' = "running"
    /\ rd' = "read"
    /\ wr' = "recv"
    /\ steps' = Append(steps, "spawn")
    /\ UNCHANGED <<pending, result, ep, procStdinClosed, killCalls,
                   waitOutcome, stdinCloseFailed, rdErr, wrErr, cancelled,
                   nHanded, nWritten, nEmitted, inbound, everythingElse>>

\* the operating system rejects the process: the channels are closed and
\* the error is raised again
OpenOSError ==
    /\ mainPc = "open"
    /\ ep' = CloseEndpoints(ep, SpawnFailClosed)
    /\ steps' = steps \o <<"close_channels", "raise">>
    /\ result' = "OSError"
    /\ mainPc' = "returned"
    /\ UNCHANGED <<pending, proc, procStdinClosed, killCalls, waitOutcome,
                   stdinCloseFailed, rd, rdErr, wr, wrErr, cancelled,
                   nHanded, nWritten, nEmitted, inbound, everythingElse>>

\* the caller's body under `yield session` ends: normally, with an
\* exception of its own, or with the cancellation of the scope
BodyExit(kind) ==
    /\ mainPc = "session"
    /\ kind = "Cancelled" => cancelled
    /\ pending' = IF kind = "normal" THEN "none" ELSE kind
    /\ mainPc' = "close_stdin"
    /\ UNCHANGED <<result, ep, proc, procStdinClosed, killCalls, steps,
                   waitOutcome, stdinCloseFailed, rd, rdErr, wr, wrErr,
                   cancelled, nHanded, nWritten, nEmitted, inbound,
                   everythingElse>>

\* a scope around the transport is cancelled while the transport is open
ExternalCancel ==
    /\ mainPc \in {"session", "close_stdin", "wait", "terminate"}
    /\ ~cancelled
    /\ cancelled' = TRUE
    /\ UNCHANGED <<mainPc, pending, result, ep, proc, procStdinClosed,
                   killCalls, steps, waitOutcome, stdinCloseFailed, rd,
                   rdErr, wr, wrErr, nHanded, nWritten, nEmitted, inbound,
                   everythingElse>>

\* try: await process.stdin.aclose() / except Exception: pass. What the
\* finally block does next, and the exception it raises if any
AfterCloseStdin_raises(how) ==
    CASE how = "closed"    -> [pc |-> "wait", exc |-> "none"]
      [] how = "fails"     -> [pc |-> "exit_process", exc |-> "StdinCloseError"]
      [] how = "Cancelled" -> [pc |-> "exit_process", exc |-> "Cancelled"]

AfterCloseStdin(how) ==
    CASE how = "closed"    -> [pc |-> "wait", exc |-> "none"]
      [] how = "fails"     -> [pc |-> "wait", exc |-> "none"]
      [] how = "Cancelled" -> [pc |-> "exit_process", exc |-> "Cancelled"]

\* the first step of the finally block
CloseStdin(how) ==
    /\ mainPc = "close_stdin"
    /\ how = "Cancelled" => cancelled
    /\ steps' = Append(steps, "close_stdin")
    /\ procStdinClosed' = (how # "fails")
    /\ stdinCloseFailed' = (how = "fails")
    /\ mainPc' = AfterCloseStdin(how).pc
    /\ pending' = IF AfterCloseStdin(how).exc = "none"
                  THEN pending ELSE AfterCloseStdin(how).exc
    /\ UNCHANGED <<result, ep, proc, killCalls, waitOutcome, rd, rdErr, wr,
                   wrErr, cancelled, nHanded, nWritten, nEmitted, inbound,
                   everythingElse>>

\* the handlers around process.wait(): the next step of the finally block
AfterWait_lookupTerminates(out) ==
    CASE out = "exited"             -> "close_channels"
      [] out = "TimeoutError"       -> "terminate"
      [] out = "ProcessLookupError" -> "terminate"
      [] out = "Cancelled"          -> "exit_process"

AfterWait_timeoutPasses(out) ==
    CASE out = "exited"             -> "close_channels"
      [] out = "TimeoutError"       -> "close_channels"
      [] out = "ProcessLookupError" -> "close_channels"
      [] out = "Cancelled"          -> "exit_process"

AfterWait(out) ==
    CASE out = "exited"             -> "close_channels"
      [] out = "TimeoutError"       -> "terminate"
      [] out = "ProcessLookupError" -> "close_channels"
      [] out = "Cancelled"          -> "exit_process"

\* with anyio.fail_after(PROCESS_TERMINATION_TIMEOUT): await process.wait()
\* The child exits within the grace period (or had exited), does not, or
\* is reported as gone; a cancelled scope interrupts the wait.
WaitExit(out) ==
    /\ mainPc = "wait"
    /\ out = "exited" => proc \in {"running", "exited"}
    /\ out = "TimeoutError" => proc = "running"
    /\ out = "ProcessLookupError" => proc = "exited"
    /\ out = "Cancelled" => cancelled
    /\ steps' = Append(steps, "wait")
    /\ waitOutcome' = out
    /\ proc' = IF out = "exited" THEN "exited" ELSE proc
    /\ mainPc' = AfterWait(out)
    /\ pending' = IF out = "Cancelled" THEN "Cancelled" ELSE pending
    /\ UNCHANGED <<result, ep, procStdinClosed, killCalls, stdinCloseFailed,
                   rd, rdErr, wr, wrErr, cancelled, nHanded, nWritten,
                   nEmitted, inbound, everythingElse>>

\* await _terminate_process_tree(process): the platform's termination of
\* the process tree ends the child, or raises
Terminate(out) ==
    /\ mainPc = "terminate"
    /\ steps' = Append(steps, "terminate")
    /\ killCalls' = killCalls + 1
    /\ proc' = IF out = "terminated" THEN "terminated" ELSE proc
    /\ mainPc' = IF out = "terminated" THEN "close_channels"
                                       ELSE "exit_process"
    /\ pending' = IF out = "terminated" THEN pending ELSE out
    /\ UNCHANGED <<result, ep, procStdinClosed, waitOutcome,
                   stdinCloseFailed, rd, rdErr, wr, wrErr, cancelled,
                   nHanded, nWritten, nEmitted, inbound, everythingElse>>

\* read_stream.aclose(); write_stream.aclose(); read_stream_writer.aclose();
\* write_stream_reader.aclose(): closing a memory stream has no suspension
\* point, so no pump runs between the four
CloseChannels ==
    /\ mainPc = "close_channels"
    /\ steps' = Append(steps, "close_channels")
    /\ ep' = CloseEndpoints(ep, ShutdownClosed)
    /\ mainPc' = "exit_process"
    /\ UNCHANGED <<pending, result, proc, procStdinClosed, killCalls,
                   waitOutcome, stdinCloseFailed, rd, rdErr, wr, wrErr,
                   cancelled, nHanded, nWritten, nEmitted, inbound,
                   everythingElse>>

\* the end of `async with ..., process`: the process's streams are closed
\* and a child still running is killed; an exception on its way out then
\* reaches the task group, which cancels its scope
ExitProcess ==
    /\ mainPc = "exit_process"
    /\ proc' = IF proc = "running" THEN "killed" ELSE proc
    /\ procStdinClosed' = TRUE
    /\ cancelled' = (cancelled \/ pending # "none")
    /\ mainPc' = "join"
    /\ UNCHANGED <<pending, result, ep, killCalls, steps, waitOutcome,
                   stdinCloseFailed, rd, rdErr, wr, wrErr, nHanded,
                   nWritten, nEmitted, inbound, everythingElse>>

\* a pump after its last statement: the stream ended, ClosedResourceError
\* was caught, another exception left the pump, or the pump was cancelled
PumpDone == {"clean", "closed", "error", "cancelled"}

\* the end of `async with anyio.create_task_group()`: both pumps have
\* finished; a pump's error leaves in an exception group
Join ==
    /\ mainPc = "join"
    /\ rd \in PumpDone
    /\ wr \in PumpDone
    /\ result' = IF rd = "error" \/ wr = "error" THEN "ExceptionGroup"
                 ELSE IF pending # "none" THEN pending
                 ELSE "ok"
    /\ mainPc' = "returned"
    /\ UNCHANGED <<pending, ep, proc, procStdinClosed, killCalls, steps,
                   waitOutcome, stdinCloseFailed, rd, rdErr, wr, wrErr,
                   cancelled, nHanded, nWritten, nEmitted, inbound,
                   everythingElse>>


\* await read_stream_writer.send(x) on the zero-capacity channel, before
\* it suspends: the sender's own end is looked at first, then the receivers
SendNow(e) ==
    IF e.read_stream_writer THEN "ClosedResourceError"
    ELSE IF e.read_stream THEN "BrokenResourceError"
    ELSE "blocks"

\* the two handlers of stdout_reader. The send of a message stands in
\* the inner try: `except Exception as exc` sends exc on the same channel.
\* The send of an error stands in the inner handler, so what it raises
\* meets only the outer `except anyio.ClosedResourceError`
AfterSendRaise(state, exc, e) ==
    LET outer(x) == IF x = "ClosedResourceError"
                    THEN [rd |-> "closed", err |-> "none"]
                    ELSE [rd |-> "error", err |-> x]
    IN  IF state = "send_msg"
        THEN IF SendNow(e) = "blocks"
             THEN [rd |-> "send_err", err |-> "none"]
             ELSE outer(SendNow(e))
        ELSE outer(exc)

\* the send begins: it raises at once or the pump is suspended in it
BeginSend(state, e) ==
    IF SendNow(e) = "blocks" THEN [rd |-> state, err |-> "none"]
                             ELSE AfterSendRaise(state, SendNow(e), e)

\* variant: the pump is no task of the group, so its error cancels nothing
ReaderGoes_noCancel(r) ==
    /\ rd' = r.rd
    /\ rdErr' = r.err
    /\ ep' = IF r.rd \in PumpDone
             THEN CloseEndpoints(ep, {"read_stream_writer"}) ELSE ep
    /\ cancelled' = cancelled

\* stdout_reader moves to r.rd; leaving `async with read_stream_writer`
\* closes that endpoint, and an exception leaving the pump makes the task
\* group cancel its scope
ReaderGoes(r) ==
    /\ rd' = r.rd
    /\ rdErr' = r.err
    /\ ep' = IF r.rd \in PumpDone
             THEN CloseEndpoints(ep, {"read_stream_writer"}) ELSE ep
    /\ cancelled' = (cancelled \/ r.rd = "error")

\* the next chunk from process.stdout, a whole item at a time. A chunk the
\* decoder rejects raises in the `async for`, outside the inner try
LifeReaderRead(item) ==
    /\ rd = "read"
    /\ proc # "none"
    /\ mainPc \notin {"join", "returned"}
    /\ nEmitted < MaxLifeLines
    /\ nEmitted' = nEmitted + 1
    /\ ReaderGoes(CASE item = "message"     -> BeginSend("send_msg", ep)
                    [] item = "malformed"   -> BeginSend("send_err", ep)
                    [] item = "undecodable" ->
                           [rd |-> "error", err |-> "UnicodeDecodeError"])
    /\ UNCHANGED <<mainPc, pending, result, proc, procStdinClosed, killCalls,
                   steps, waitOutcome, stdinCloseFailed, wr, wrErr, nHanded,
                   nWritten, inbound, everythingElse>>

\* variant: the end of the child's output cancels the scope of the pumps
LifeReaderEof_cancels ==
    /\ rd = "read"
    /\ proc \in {"exited", "terminated", "killed"}
    /\ rd' = "clean"
    /\ rdErr' = "none"
    /\ ep' = CloseEndpoints(ep, {"read_stream_writer"})
    /\ cancelled' = TRUE
    /\ UNCHANGED <<mainPc, pending, result, proc, procStdinClosed, killCalls,
                   steps, waitOutcome, stdinCloseFailed, wr, wrErr, nHanded,
                   nWritten, nEmitted, inbound, everythingElse>>

\* process.stdout ends after the child has gone: the `async for` ends
LifeReaderEof ==
    /\ rd = "read"
    /\ proc \in {"exited", "terminated", "killed"}
    /\ ReaderGoes([rd |-> "clean", err |-> "none"])
    /\ UNCHANGED <<mainPc, pending, result, proc, procStdinClosed, killCalls,
                   steps, waitOutcome, stdinCloseFailed, wr, wrErr, nHanded,
                   nWritten, nEmitted, inbound, everythingElse>>

\* the receive endpoint is closed under a suspended send: the sender wakes
\* with BrokenResourceError
LifeReaderWake ==
    /\ rd \in {"send_msg", "send_err"}
    /\ ep.read_stream
    /\ ReaderGoes(AfterSendRaise(rd, "BrokenResourceError", ep))
    /\ UNCHANGED <<mainPc, pending, result, proc, procStdinClosed, killCalls,
                   steps, waitOutcome, stdinCloseFailed, wr, wrErr, nHanded,
                   nWritten, nEmitted, inbound, everythingElse>>

\* the cancelled scope reaches stdout_reader where it is suspended
LifeReaderCancel ==
    /\ rd \in {"read", "send_msg", "send_err"}
    /\ cancelled
    /\ ReaderGoes([rd |-> "cancelled", err |-> "none"])
    /\ UNCHANGED <<mainPc, pending, result, proc, procStdinClosed, killCalls,
                   steps, waitOutcome, stdinCloseFailed, wr, wrErr, nHanded,
                   nWritten, nEmitted, inbound, everythingElse>>

\* the session receives the unit stdout_reader is sending
SessionReceive ==
    /\ mainPc = "session"
    /\ rd \in {"send_msg", "send_err"}
    /\ ~ep.read_stream
    /\ inbound' = IF rd = "send_msg"
                  THEN [inbound EXCEPT !.messages = @ + 1]
                  ELSE [inbound EXCEPT !.errors = @ + 1]
    /\ rd' = "read"
    /\ UNCHANGED <<mainPc, pending, result, ep, proc, procStdinClosed,
                   killCalls, steps, waitOutcome, stdinCloseFailed, rdErr,
                   wr, wrErr, cancelled, nHanded, nWritten, nEmitted,
                   everythingElse>>

\* the session sends a message on write_stream: stdin_writer takes it
SessionSend ==
    /\ mainPc = "session"
    /\ wr = "recv"
    /\ ~ep.write_stream
    /\ nHanded < MaxLifeMsgs
    /\ nHanded' = nHanded + 1
    /\ wr' = "write"
    /\ UNCHANGED <<mainPc, pending, result, ep, proc, procStdinClosed,
                   killCalls, steps, waitOutcome, stdinCloseFailed, rd,
                   rdErr, wrErr, cancelled, nWritten, nEmitted, inbound,
                   everythingElse>>

\* the session closes its send endpoint
SessionCloseWrite ==
    /\ mainPc = "session"
    /\ ~ep.write_stream
    /\ ep' = CloseEndpoints(ep, {"write_stream"})
    /\ UNCHANGED <<mainPc, pending, result, proc, procStdinClosed, killCalls,
                   steps, waitOutcome, stdinCloseFailed, rd, rdErr, wr,
                   wrErr, cancelled, nHanded, nWritten, nEmitted, inbound,
                   everythingElse>>

\* stdin_writer moves to w.wr; leaving `async with write_stream_reader`
\* closes that endpoint
WriterGoes(w) ==
    /\ wr' = w.wr
    /\ wrErr' = w.err
    /\ ep' = IF w.wr \in PumpDone
             THEN CloseEndpoints(ep, {"write_stream_reader"}) ELSE ep
    /\ cancelled' = (cancelled \/ w.wr = "error")

\* every send endpoint is closed and nothing is queued: the `async for`
\* over write_stream_reader ends
WriterAtEos_raises == [wr |-> "error", err |-> "EndOfStream"]

WriterAtEos == [wr |-> "clean", err |-> "none"]

LifeWriterEos ==
    /\ wr = "recv"
    /\ ep.write_stream
    /\ WriterGoes(WriterAtEos)
    /\ UNCHANGED <<mainPc, pending, result, proc, procStdinClosed, killCalls,
                   steps, waitOutcome, stdinCloseFailed, rd, rdErr, nHanded,
                   nWritten, nEmitted, inbound, everythingElse>>

\* await process.stdin.send(...): the child takes the line
LifeWriterWrite ==
    /\ wr = "write"
    /\ proc = "running"
    /\ ~procStdinClosed
    /\ nWritten' = nWritten + 1
    /\ wr' = "recv"
    /\ UNCHANGED <<mainPc, pending, result, ep, proc, procStdinClosed,
                   killCalls, steps, waitOutcome, stdinCloseFailed, rd,
                   rdErr, wrErr, cancelled, nHanded, nEmitted, inbound,
                   everythingElse>>

\* the send to a stdin that was closed, or whose child has gone, raises:
\* ClosedResourceError is caught by the pump, anything else leaves it
LifeWriterWriteFails(exc) ==
    /\ wr = "write"
    /\ procStdinClosed \/ proc # "running"
    /\ WriterGoes(IF exc = "ClosedResourceError"
                  THEN [wr |-> "closed", err |-> "none"]
                  ELSE [wr |-> "error", err |-> exc])
    /\ UNCHANGED <<mainPc, pending, result, proc, procStdinClosed, killCalls,
                   steps, waitOutcome, stdinCloseFailed, rd, rdErr, nHanded,
                   nWritten, nEmitted, inbound, everythingElse>>

\* the cancelled scope reaches stdin_writer where it is suspended
LifeWriterCancel ==
    /\ wr \in {"recv", "write"}
    /\ cancelled
    /\ WriterGoes([wr |-> "cancelled", err |-> "none"])
    /\ UNCHANGED <<mainPc, pending, result, proc, procStdinClosed, killCalls,
                   steps, waitOutcome, stdinCloseFailed, rd, rdErr, nHanded,
                   nWritten, nEmitted, inbound, everythingElse>>

\* the child exits by itself: its input ended, or it failed
ChildExits ==
    /\ proc = "running"
    /\ mainPc \in {"session", "close_stdin", "wait"}
    /\ proc' = "exited"
    /\ UNCHANGED <<mainPc, pending, result, ep, procStdinClosed, killCalls,
                   steps, waitOutcome, stdinCloseFailed, rd, rdErr, wr,
                   wrErr, cancelled, nHanded, nWritten, nEmitted, inbound,
                   everythingElse>>

MainStep ==
    \/ OpenOk
    \/ OpenOSError
    \/ \E how \in {"closed", "fails", "Cancelled"} : CloseStdin(how)
    \/ \E out \in {"exited", "TimeoutError", "ProcessLookupError",
                    "Cancelled"} : WaitExit(out)
    \/ \E out \in {"terminated", "TerminateError"} : Terminate(out)
    \/ CloseChannels
    \/ ExitProcess
    \/ Join

NextLifecycle ==
    \/ MainStep
    \* stdout_reader
    \/ \E item \in {"message", "malformed", "undecodable"} :
            LifeReaderRead(item)
    \/ LifeReaderEof
    \/ LifeReaderWake
    \/ LifeReaderCancel
    \* stdin_writer
    \/ LifeWriterEos
    \/ LifeWriterWrite
    \/ \E exc \in {"ClosedResourceError", "BrokenResourceError"} :
            LifeWriterWriteFails(exc)
    \/ LifeWriterCancel
    \* the body of the `async with`
    \/ \E kind \in {"normal", "CallerError", "Cancelled"} : BodyExit(kind)
    \/ SessionReceive
    \/ SessionSend
    \/ SessionCloseWrite
    \/ ExternalCancel
    \/ ChildExits

SpecLifecycle == InitFraming /\ [][NextLifecycle]_vars


\* The event loop runs every task that can run, and the wait for the
\* child's exit is bounded by fail_after: a step of the transport's own
\* task, or a pump's reaction to a closed endpoint, a closed stdin or a
\* cancelled scope, is not postponed for ever. The caller's body and the
\* child are under no such obligation: the body may never end, and the
\* child may never read, write or exit.
SpecLifecycleFair ==
    /\ SpecLifecycle
    /\ WF_vars(MainStep)
    /\ WF_vars(LifeReaderEof)
    /\ WF_vars(LifeReaderWake)
    /\ WF_vars(LifeReaderCancel)
    /\ WF_vars(LifeWriterEos)
    /\ WF_vars(\E exc \in {"ClosedResourceError", "BrokenResourceError"} :
            LifeWriterWriteFails(exc))
    /\ WF_vars(LifeWriterCancel)

(***************************************************************************)
(* Properties of the transport's life.                                     *)
(***************************************************************************)
Released == proc \in {"exited", "terminated", "killed"}

\* C11: _terminate_process_tree has been called once when the wait for the
\* child's exit timed out and the handler has run, and never when the child
\* exited within the grace period or the wait reported ProcessLookupError.
C11_TerminationIssuedOncePerTimeout ==
    killCalls = IF waitOutcome = "TimeoutError" /\ mainPc # "terminate"
                THEN 1 ELSE 0

C11_Witness ==
    /\ mainPc = "returned"
    /\ waitOutcome = "TimeoutError"
    /\ killCalls = 1

\* C12: when the context of an opened transport has returned or raised,
\* the child is released and the four endpoints are closed.
C12_CloseReleasesEverything ==
    (mainPc = "returned" /\ result # "OSError") =>
        (Released /\ AllClosed(ep))

\* C13: when the spawn has raised OSError, the four endpoints were closed
\* before the error left, and nothing else ran: no pump, no session, no
\* step of the shutdown.
C13_SpawnFailureReleasesChannels ==
    result = "OSError" =>
        /\ AllClosed(ep)
        /\ steps = <<"close_channels", "raise">>
        /\ rd = "idle" /\ wr = "idle"
        /\ proc = "none"
        /\ ~procStdinClosed /\ waitOutcome = "none" /\ killCalls = 0
        /\ nHanded = 0 /\ inbound = [messages |-> 0, errors |-> 0]

C13_Witness ==
    /\ mainPc = "returned"
    /\ result = "OSError"
    /\ AllClosed(ep)

C17_ShutdownLinear ==
    result # "OSError" =>
        /\ \/ IsPrefix(steps, <<"spawn", "close_stdin", "wait",
                                "terminate", "close_channels">>)
           \/ IsPrefix(steps, <<"spawn", "close_stdin", "wait",
                                "close_channels">>)
        /\ Occurs("terminate", steps) => waitOutcome = "TimeoutError"
        /\ Occurs("close_channels", steps) =>
               proc \in {"exited", "terminated"}
        /\ mainPc = "wait" => steps = <<"spawn", "close_stdin">>
        /\ mainPc = "terminate" => steps = <<"spawn", "close_stdin", "wait">>
        /\ mainPc = "close_channels" => ~Occurs("close_channels", steps)

C17_Witness ==
    /\ mainPc = "returned"
    /\ steps = <<"spawn", "close_stdin", "wait", "terminate",
                 "close_channels">>

\* C18: after process.stdin.aclose() has raised, the shutdown goes on: the
\* wait runs, a timed-out wait is followed by the termination, the channels
\* are closed once the wait or the termination has ended the child, and the
\* exception never travels to the caller.
C18_StdinCloseFailureSwallowed ==
    stdinCloseFailed =>
        /\ pending # "StdinCloseError" /\ result # "StdinCloseError"
        /\ mainPc = "wait" \/ Occurs("wait", steps)
        /\ (waitOutcome = "TimeoutError" /\ mainPc # "terminate") =>
               killCalls = 1
        /\ (/\ mainPc \in {"exit_process", "join", "returned"}
            /\ \/ waitOutcome \in {"exited", "ProcessLookupError"}
               \/ waitOutcome = "TimeoutError" /\ proc = "terminated")
               => AllClosed(ep)

C18_Witness ==
    /\ stdinCloseFailed
    /\ mainPc = "returned"
    /\ waitOutcome = "TimeoutError"
    /\ AllClosed(ep)
    /\ result = "ok"

\* C19: no exception of a closed channel leaves stdout_reader.
C19_OutputPumpCleanOnClose ==
    rdErr \notin {"BrokenResourceError", "ClosedResourceError"}

\* C20: a failure of the child's output stream does not leave
\* stdout_reader as an exception.
C20_StreamFailureForwardedInBand ==
    rdErr # "UnicodeDecodeError"

\* ---------------------------------------------------------------------
\* The environment of the child process.
\* ---------------------------------------------------------------------
\* DEFAULT_INHERITED_ENV_VARS where sys.platform is not win32
DEFAULT_INHERITED_ENV_VARS ==
    {"HOME", "LOGNAME", "PATH", "SHELL", "TERM", "USER"}

\* the variable names the host and the caller draw from
HostNames == {"PATH", "HOME", "SECRET"}
CallerNames == {"PATH", "SECRET"}

\* a value that starts with "()" looks like an exported shell function and
\* is skipped
get_default_environment(host) ==
    [k \in {n \in DOMAIN host \cap DEFAULT_INHERITED_ENV_VARS :
                ~IsPrefix(<<"(", ")">>, host[n])} |-> host[k]]

\* {**a, **b}
Merge_firstWins(a, b) ==
    [k \in DOMAIN a \cup DOMAIN b |-> IF k \in DOMAIN a THEN a[k] ELSE b[k]]

Merge(a, b) ==
    [k \in DOMAIN a \cup DOMAIN b |-> IF k \in DOMAIN b THEN b[k] ELSE a[k]]

InitEnvironment ==
    /\ InitLife
    /\ InitWs
    \* each name absent, or bound to a plain value or to one that starts
    \* like an exported shell function
    /\ hostEnv \in UNION {[d -> {<<"h">>, <<"(", ")", "h">>}] :
                            d \in SUBSET HostNames}
    /\ callerEnv \in {[given |-> FALSE, env |-> NoEnv]} \cup
           {[given |-> TRUE, env |-> e] :
              e \in UNION {[d -> {<<"c">>, <<"(", ")", "c">>}] :
                            d \in SUBSET CallerNames}}
    /\ childEnv = [built |-> FALSE, env |-> NoEnv]
    /\ InitSession({"None"}, {DefaultKeywords})
    /\ InitWriter
    /\ InitReader
    /\ InitCls

BuildEnv ==
    /\ ~childEnv.built
    \* the env argument of _create_platform_compatible_process
    /\ childEnv' = [built |-> TRUE,
                    env |-> IF callerEnv.given
                            THEN Merge(get_default_environment(hostEnv),
                                       callerEnv.env)
                            ELSE get_default_environment(hostEnv)]
    /\ UNCHANGED <<hostEnv, callerEnv, lifeVars, sessionVars, writerVars,
                   readerVars, clsVars, wsVars>>

SpecEnvironment == InitEnvironment /\ [][BuildEnv]_vars

SuppliedByCaller(k) == callerEnv.given /\ k \in DOMAIN callerEnv.env

\* C16: every name the caller supplies reaches the child with the caller's
\* value; any other name reaches the child only if it is allow-listed and
\* set on the host, with the host's value, and every such name whose host
\* value is not function-like does reach it.
C16_ChildEnvIsDefaultOverlaid ==
    childEnv.built =>
        /\ DOMAIN childEnv.env \subseteq HostNames \cup CallerNames
        /\ \A k \in HostNames \cup CallerNames :
              IF SuppliedByCaller(k)
              THEN /\ k \in DOMAIN childEnv.env
                   /\ childEnv.env[k] = callerEnv.env[k]
              ELSE /\ k \in DOMAIN childEnv.env =>
                          /\ k \in DEFAULT_INHERITED_ENV_VARS
                          /\ k \in DOMAIN hostEnv
                          /\ childEnv.env[k] = hostEnv[k]
                   /\ (/\ k \in DEFAULT_INHERITED_ENV_VARS
                       /\ k \in DOMAIN hostEnv
                       /\ ~IsPrefix(<<"(", ")">>, hostEnv[k])) =>
                          k \in DOMAIN childEnv.env

C16_Witness ==
    /\ childEnv.built
    /\ callerEnv.given
    /\ DOMAIN hostEnv = HostNames
    /\ DOMAIN callerEnv.env = {"PATH"}
    /\ hostEnv["PATH"] = <<"h">>
    /\ childEnv.env = [PATH |-> <<"c">>, HOME |-> hostEnv["HOME"]]
    /\ ~IsPrefix(<<"(", ")">>, hostEnv["HOME"])


(***************************************************************************)
(* The approval gate over a sequence of calls.                             *)
(***************************************************************************)
\* the call is one call_tool stops at the prompt for
Gated(op, name) ==
    /\ op \in MCUPSessionMethods
    /\ NeedsApproval(IsMutating(name, keywords), approval_mode)

GatedForwarded == {i \in 1..Len(superLog) :
                      Gated(superLog[i].op, superLog[i].name)}

AtPrompt == IF callerPc = "prompt" THEN 1 ELSE 0

\* every call started is at the prompt, denied, or forwarded once; the
\* prompt was read once for each gated call
C26_State ==
    /\ prompts = Cardinality(deniedIds) + Cardinality(GatedForwarded) + AtPrompt
    /\ Len(superLog) = nCalls - Cardinality(deniedIds) - AtPrompt
    /\ Cardinality(Ids(superLog)) = Len(superLog)
    /\ Ids(superLog) \cap deniedIds = {}
    /\ (cur.id \in Ids(superLog) /\ Gated(cur.op, cur.name)) =>
           (cur.input.type = "line" /\ IsYAmidWhitespace(cur.input.text))

\* a call starts: it is prompted for exactly when it is gated, whatever
\* was approved or denied before; a prompt ends: the call is forwarded
\* exactly when this answer approves
C26_Step ==
    /\ nCalls' # nCalls =>
          /\ (callerPc' = "prompt") <=> Gated(cur'.op, cur'.name)
          /\ prompts' = prompts + (IF Gated(cur'.op, cur'.name) THEN 1 ELSE 0)
          /\ Len(superLog') =
                Len(superLog) + (IF Gated(cur'.op, cur'.name) THEN 0 ELSE 1)
    /\ (callerPc = "prompt" /\ callerPc' # "prompt") =>
          /\ prompts' = prompts
          /\ IF cur'.input.type = "line" /\ IsYAmidWhitespace(cur'.input.text)
             THEN superLog' = Append(superLog, ForwardedAs(cur))
                  /\ deniedIds' = deniedIds
             ELSE superLog' = superLog
                  /\ deniedIds' = deniedIds \cup {cur.id}

\* C26: over any sequence of calls the prompt is read once per gated call,
\* the calls forwarded are the ungated ones and the gated ones whose own
\* answer approves, and what was approved or denied before plays no part.
C26_ApprovalNotRemembered == []C26_State /\ [][C26_Step]_vars

C26_Witness ==
    /\ deniedIds = {1}
    /\ Len(superLog) = 1
    /\ superLog[1].id = 2
    /\ superLog[1].name = write_data
    /\ cur.name = write_data
    /\ cur.input = Line(in_y)
    /\ prompts = 2


(***************************************************************************)
(* The end of the child's output: a last line without its newline.         *)
(***************************************************************************)
\* complete lines the child writes before the unterminated one
MaxTailLines == 1

\* the child writes text with no newline after it and closes its stdout
ChildWriteTail(item) ==
    /\ ~stdoutClosed
    /\ stdout' = stdout \o item.text
    /\ stdoutClosed' = TRUE
    /\ UNCHANGED <<childLines, pos, buffer, lines, rpc, delivered>>
    /\ UNCHANGED <<sessionVars, writerVars, clsVars, extVars>>

NextTail ==
    \/ \E item \in ChildItems : ChildWrite(item, MaxTailLines)
    \/ ChildClose
    \/ \E item \in {GoodItem(msg_a), GoodItem(msg_bs), BadItem(bad_text),
                     BadItem(bad_trunc)} : ChildWriteTail(item)
    \/ \E n \in 1..(Len(stdout) - pos) : ReaderRead(n)
    \/ ReaderSend
    \/ ReaderEof

SpecTail == InitFraming /\ [][NextTail]_vars

\* the part of the child's output after its last newline
Trailing == Last(Split(stdout))

\* C24: when stdout_reader has ended at the end of the child's output, the
\* units delivered are those of the newline-terminated lines and nothing
\* more: the unterminated last segment is still in the carry-over, whether
\* or not it is a valid document.
C24_TrailingSegmentDiscarded ==
    /\ IsPrefix(delivered, Expected)
    /\ rpc = "done" =>
          /\ delivered = Expected
          /\ buffer = Trailing
          /\ lines = <<>>

C24_Witness ==
    /\ rpc = "done"
    /\ Len(childLines) = MaxTailLines
    /\ Trailing = ModelDumpJson(msg_a)
    /\ ModelValidateJson(Trailing) = MessageUnit(msg_a)
    /\ Len(delivered) = MaxTailLines


(***************************************************************************)
(* The end of the child's output and the two pumps.                        *)
(***************************************************************************)
\* stdout_reader has ended at the end of the child's output: every item it
\* read was received by the session before the producer end was closed
C25_AllDeliveredThenClosed ==
    rd = "clean" =>
        /\ ep.read_stream_writer
        /\ inbound.messages + inbound.errors = nEmitted
        /\ rdErr = "none"

\* the step that ends stdout_reader at the end of the output closes the
\* producer end of the inbound channel and touches nothing of stdin_writer
C25_EofStep ==
    (rd = "read" /\ rd' = "clean") =>
        /\ ep'.read_stream_writer
        /\ ep'.write_stream = ep.write_stream
        /\ ep'.write_stream_reader = ep.write_stream_reader
        /\ wr' = wr
        /\ cancelled' = cancelled
        /\ inbound' = inbound

\* C25 as stated: after the end of the child's output stdin_writer ends
\* only at the end of the outbound stream or by cancellation.
C25_InputPumpOutlivesEof ==
    /\ C25_AllDeliveredThenClosed
    /\ (rd = "clean" /\ wr \in PumpDone) => wr \in {"clean", "cancelled"}

\* the ways stdin_writer ends: the outbound stream has ended, the scope is
\* cancelled, or the write to the child's stdin raised
C25_WriterEnds ==
    (wr \notin PumpDone /\ wr' \in PumpDone) =>
        \/ wr = "recv" /\ ep.write_stream /\ wr' = "clean"
        \/ cancelled /\ wr' = "cancelled"
        \/ /\ wr = "write"
           /\ procStdinClosed \/ proc # "running"
           /\ wr' \in {"closed", "error"}

\* C25 amended: at the end of the child's output stdout_reader has
\* delivered every item and then closes the producer end of the inbound
\* channel; this step does not stop stdin_writer, which ends when the
\* outbound stream ends, when the scope is cancelled, or when a write to
\* the child's stdin fails.
C25_EofClosesInboundOnly ==
    /\ []C25_AllDeliveredThenClosed
    /\ [][C25_EofStep]_vars
    /\ [][C25_WriterEnds]_vars

C25_Witness ==
    /\ mainPc = "session"
    /\ rd = "clean"
    /\ inbound.messages + inbound.errors = MaxLifeLines
    /\ wr = "recv"
    /\ ~ep.write_stream
    /\ ~cancelled


(***************************************************************************)
(* The shared cancel scope and the closing of the endpoints.               *)
(***************************************************************************)
\* C21: a pump that ends with an error cancels the scope, and once the
\* scope is cancelled, or one pump has ended by error or cancellation, both
\* pumps end, wherever the other one was suspended.
C21_CancelReachesBothPumps ==
    /\ []((rd \in {"error", "cancelled"} \/ wr \in {"error", "cancelled"})
             => cancelled)
    /\ cancelled ~> (rd \in PumpDone /\ wr \in PumpDone)

C21_Witness ==
    /\ rd = "error"
    /\ wr = "cancelled"
    /\ nHanded = 1
    /\ nWritten = 0
    /\ mainPc = "session"

\* closing again an endpoint that is closed changes nothing
CloseIsIdempotent(e) ==
    \A names \in SUBSET Endpoints :
        CloseEndpoints(CloseEndpoints(e, names), names) = CloseEndpoints(e, names)

\* C22: closing is idempotent, and when the context has ended, on whatever
\* path, both ends of the inbound pair and both ends of the outbound pair
\* are closed.
C22_PairsEndClosed ==
    /\ CloseIsIdempotent(ep)
    /\ mainPc = "returned" =>
          /\ ep.read_stream_writer /\ ep.read_stream
          /\ ep.write_stream /\ ep.write_stream_reader


(***************************************************************************)
(* The WebSocket transport: websocket_client, its two pumps and the        *)
(* server at the other end of the connection.                              *)
(***************************************************************************)
\* text frames the server sends in one life of the connection
MaxFrames == 3
\* messages ws_writer takes from the outbound channel
MaxWsMsgs == 1

notWs == <<sessionVars, writerVars, readerVars, clsVars, lifeVars, hostEnv,
           callerEnv, childEnv>>

\* async with ws_connect(url, subprotocols=["mcp"]) as ws: the connection
\* is made, the task group starts both pumps and the session is yielded
WsConnectOk ==
    /\ wsPc = "connect"
    /\ wsPc' = "session"
    /\ wsConn' = "open"
    /\ wsRd' = "recv"
    /\ wsWr' = "recv"
    /\ UNCHANGED <<wsPending, wsResult, wsCancelled, wsFrames, wsPos, wsUnit,
                   wsInbound, wsHeld, wsTaken, wsOut, notWs>>

\* the connection cannot be made: ws_connect raises
WsConnectFails ==
    /\ wsPc = "connect"
    /\ wsPc' = "returned"
    /\ wsResult' = "ConnectError"
    /\ UNCHANGED <<wsPending, wsConn, wsCancelled, wsFrames, wsPos, wsRd,
                   wsUnit, wsInbound, wsWr, wsHeld, wsTaken, wsOut, notWs>>

\* the server sends a text frame
WsServerSend(item) ==
    /\ wsConn = "open"
    /\ Len(wsFrames) < MaxFrames
    /\ wsFrames' = Append(wsFrames, item)
    /\ UNCHANGED <<wsPc, wsPending, wsResult, wsConn, wsCancelled, wsPos,
                   wsRd, wsUnit, wsInbound, wsWr, wsHeld, wsTaken, wsOut,
                   notWs>>

\* the server closes the connection
WsServerClose ==
    /\ wsConn = "open"
    /\ wsConn' = "peer_closed"
    /\ UNCHANGED <<wsPc, wsPending, wsResult, wsCancelled, wsFrames, wsPos,
                   wsRd, wsUnit, wsInbound, wsWr, wsHeld, wsTaken, wsOut,
                   notWs>>

\* `async for raw_text in ws` yields the next frame; model_validate_json
\* gives the message, or raises the ValidationError the handler catches:
\* either way a unit is sent next
WsReaderRecv ==
    /\ wsRd = "recv"
    /\ wsPos < Len(wsFrames)
    /\ wsPos' = wsPos + 1
    /\ wsUnit' = ModelValidateJson(wsFrames[wsPos + 1].text)
    /\ wsRd' = "send"
    /\ UNCHANGED <<wsPc, wsPending, wsResult, wsConn, wsCancelled, wsFrames,
                   wsInbound, wsWr, wsHeld, wsTaken, wsOut, notWs>>

\* variant: the handler is around the loop, so an error ends the pump
WsAfterSend_stopOnError(unit) ==
    IF unit.kind = "error" THEN "clean" ELSE "recv"

\* after the send, of a message or of an error, the loop goes on
WsAfterSend(unit) == "recv"

\* await read_stream_writer.send(...): the channel has no buffer, so the
\* send completes when the session receives the unit
WsReaderSend ==
    /\ wsRd = "send"
    /\ wsPc = "session"
    /\ wsInbound' = Append(wsInbound, wsUnit)
    /\ wsUnit' = NoUnit
    /\ wsRd' = WsAfterSend(wsUnit)
    /\ UNCHANGED <<wsPc, wsPending, wsResult, wsConn, wsCancelled, wsFrames,
                   wsPos, wsWr, wsHeld, wsTaken, wsOut, notWs>>

\* the connection was closed by the server and every frame is taken: the
\* iteration ends
WsReaderEnd ==
    /\ wsRd = "recv"
    /\ wsConn = "peer_closed"
    /\ wsPos = Len(wsFrames)
    /\ wsRd' = "clean"
    /\ UNCHANGED <<wsPc, wsPending, wsResult, wsConn, wsCancelled, wsFrames,
                   wsPos, wsUnit, wsInbound, wsWr, wsHeld, wsTaken, wsOut,
                   notWs>>

\* the cancelled scope reaches ws_reader where it is suspended
WsReaderCancel ==
    /\ wsRd \in {"recv", "send"}
    /\ wsCancelled
    /\ wsRd' = "cancelled"
    /\ wsUnit' = NoUnit
    /\ UNCHANGED <<wsPc, wsPending, wsResult, wsConn, wsCancelled, wsFrames,
                   wsPos, wsInbound, wsWr, wsHeld, wsTaken, wsOut, notWs>>

\* `async for session_message in write_stream_reader`: the session sends
\* a message and ws_writer takes it
WsWriterTake(m) ==
    /\ wsWr = "recv"
    /\ wsPc = "session"
    /\ wsTaken < MaxWsMsgs
    /\ wsTaken' = wsTaken + 1
    /\ wsHeld' = m
    /\ wsWr' = "write"
    /\ UNCHANGED <<wsPc, wsPending, wsResult, wsConn, wsCancelled, wsFrames,
                   wsPos, wsRd, wsUnit, wsInbound, wsOut, notWs>>

\* await ws.send(json.dumps(msg_dict)): one text frame for the message
WsWriterWrite ==
    /\ wsWr = "write"
    /\ wsConn = "open"
    /\ wsOut' = Append(wsOut, ModelDumpJson(wsHeld))
    /\ wsHeld' = <<>>
    /\ wsWr' = "recv"
    /\ UNCHANGED <<wsPc, wsPending, wsResult, wsConn, wsCancelled, wsFrames,
                   wsPos, wsRd, wsUnit, wsInbound, wsTaken, notWs>>

\* ws.send on a connection the server closed raises ConnectionClosed,
\* which leaves the pump
WsWriterWriteFails ==
    /\ wsWr = "write"
    /\ wsConn = "peer_closed"
    /\ wsWr' = "error"
    /\ wsCancelled' = TRUE
    /\ UNCHANGED <<wsPc, wsPending, wsResult, wsConn, wsFrames, wsPos, wsRd,
                   wsUnit, wsInbound, wsHeld, wsTaken, wsOut, notWs>>

\* the cancelled scope reaches ws_writer where it is suspended
WsWriterCancel ==
    /\ wsWr \in {"recv", "write"}
    /\ wsCancelled
    /\ wsWr' = "cancelled"
    /\ UNCHANGED <<wsPc, wsPending, wsResult, wsConn, wsCancelled, wsFrames,
                   wsPos, wsRd, wsUnit, wsInbound, wsHeld, wsTaken, wsOut,
                   notWs>>

\* the caller's body under `yield session` ends, and the statement after
\* the session block runs
WsBodyExit(kind) ==
    /\ wsPc = "session"
    /\ kind = "Cancelled" => wsCancelled
    /\ wsPending' = IF kind = "normal" THEN "none" ELSE kind
    /\ wsCancelled' = TRUE
    /\ wsPc' = "join"
    /\ UNCHANGED <<wsResult, wsConn, wsFrames, wsPos, wsRd, wsUnit,
                   wsInbound, wsWr, wsHeld, wsTaken, wsOut, notWs>>

\* the end of `async with anyio.create_task_group()`: both pumps have
\* finished
WsJoin ==
    /\ wsPc = "join"
    /\ wsRd \in PumpDone
    /\ wsWr \in PumpDone
    /\ wsPc' = "closing"
    /\ UNCHANGED <<wsPending, wsResult, wsConn, wsCancelled, wsFrames, wsPos,
                   wsRd, wsUnit, wsInbound, wsWr, wsHeld, wsTaken, wsOut,
                   notWs>>

\* the end of `async with ws_connect(...)`: the connection is closed
WsClose ==
    /\ wsPc = "closing"
    /\ wsConn' = "closed"
    /\ wsResult' = IF wsRd = "error" \/ wsWr = "error" THEN "ExceptionGroup"
                   ELSE IF wsPending # "none" THEN wsPending
                   ELSE "ok"
    /\ wsPc' = "returned"
    /\ UNCHANGED <<wsPending, wsCancelled, wsFrames, wsPos, wsRd, wsUnit,
                   wsInbound, wsWr, wsHeld, wsTaken, wsOut, notWs>>

NextWebsocket ==
    \/ WsConnectOk
    \/ WsConnectFails
    \/ \E item \in {GoodItem(msg_a), GoodItem(msg_nl), BadItem(bad_text)} :
            WsServerSend(item)
    \/ WsServerClose
    \/ WsReaderRecv
    \/ WsReaderSend
    \/ WsReaderEnd
    \/ WsReaderCancel
    \/ \E m \in {msg_nl} : WsWriterTake(m)
    \/ WsWriterWrite
    \/ WsWriterWriteFails
    \/ WsWriterCancel
    \/ \E kind \in {"normal", "CallerError", "Cancelled"} : WsBodyExit(kind)
    \/ WsJoin
    \/ WsClose

SpecWebsocket == InitFraming /\ [][NextWebsocket]_vars

\* the units the server's frames stand for, in the order it sent them
WsExpected == [i \in 1..Len(wsFrames) |-> wsFrames[i].unit]

\* C23: the inbound channel holds, in order, one unit for each frame
\* taken, a bad frame being one error in its place and the frames after it
\* still being delivered, so that ws_reader ends by itself only when the
\* server has closed the connection and every frame is delivered; once the
\* session block is left the scope of the pumps is cancelled, and when the
\* context has ended both pumps have ended and the connection is closed.
C23_BadFrameInBandAndTeardown ==
    /\ IsPrefix(wsInbound, WsExpected)
    /\ wsRd = "recv" => Len(wsInbound) = wsPos
    /\ wsRd = "send" => (Len(wsInbound) = wsPos - 1
                           /\ wsUnit = WsExpected[wsPos])
    /\ wsRd = "clean" =>
          /\ wsConn \in {"peer_closed", "closed"}
          /\ wsInbound = WsExpected
    /\ wsPc \in {"join", "closing"} => wsCancelled
    /\ wsPc = "closing" => (wsRd \in PumpDone /\ wsWr \in PumpDone)
    /\ (wsPc = "returned" /\ wsResult # "ConnectError") =>
          /\ wsConn = "closed"
          /\ wsCancelled
          /\ wsRd \in PumpDone /\ wsWr \in PumpDone

C23_Witness ==
    /\ wsPc = "returned"
    /\ wsResult = "ok"
    /\ wsFrames = <<BadItem(bad_text), GoodItem(msg_nl), GoodItem(msg_a)>>
    /\ wsInbound = <<ErrorUnit, MessageUnit(msg_nl), MessageUnit(msg_a)>>
    /\ wsRd = "cancelled"
    /\ wsWr = "cancelled"
    /\ wsConn = "closed"

====
